---------------------------- MODULE Spec2Model ----------------------------
(***************************************************************************)
(* Model of package slogjson (sloggers/slogjson/slogjson.go): the JSON     *)
(* sink of the slog logging library.  A sink renders one slog.Entry as a   *)
(* single JSON line and hands it to a synchronized writer; Sync forwards   *)
(* to the writer's Sync.                                                   *)
(*                                                                         *)
(* Bytes are modelled as sequences of tokens (strings): the structural     *)
(* tokens "{", "}", ":", ",", the newline "\n", quoted JSON strings and    *)
(* bare numbers.  A stream's content is the sequence of tokens written to  *)
(* it so far.                                                              *)
(***************************************************************************)
EXTENDS Naturals, Sequences, FiniteSets, TLC

(***************************************************************************)
(* Bounds of the model.                                                    *)
(***************************************************************************)
NumThreads == 2   \* goroutines calling the sinks
MaxCalls   == 2   \* calls (LogEntry or Sync) made in one behaviour
MaxFields  == 2   \* longest field list of an entry

Threads == 1..NumThreads
Sinks   == {1, 2}
Nil     == "nil"

(***************************************************************************)
(* Values, fields and entries (slog.Entry as read by LogEntry).            *)
(***************************************************************************)
StringValue(s) == [kind |-> "string", val |-> s, fields |-> <<>>]
ChanValue      == [kind |-> "chan", val |-> "", fields |-> <<>>]
MapValue(fs)   == [kind |-> "map", val |-> "", fields |-> fs]

FieldNames  == {"a", "b"}
FieldValues == {StringValue("v"), ChanValue}
FieldSet    == [Name : FieldNames, Value : FieldValues]

RECURSIVE SeqsUpTo(_, _)
SeqsUpTo(S, n) ==
    IF n = 0 THEN {<<>>}
    ELSE LET shorter == SeqsUpTo(S, n - 1)
         IN  shorter \cup {Append(q, x) : q \in {r \in shorter : Len(r) = n - 1}, x \in S}

\* trace.SpanContext (go.opencensus.io/trace): the comparable struct line 61
\* tests against its zero value.  Besides the two identifiers it carries the
\* trace options (and a tracestate pointer, nil throughout this model).
IDs == {0, 1}
SpanContexts == [TraceID : IDs, SpanID : IDs, TraceOptions : {0, 1}]
ZeroSpanContext == [TraceID |-> 0, SpanID |-> 0, TraceOptions |-> 0]

Entries ==
    [Time : {"2019-09-10T20:19:07.159852-05:00"}, Level : {"INFO"},
     LoggerName : {"comp.subcomp"}, Message : {"hi"},
     File : {"slog/examples_test.go"}, Line : {62},
     Func : {"pkg.TestExampleTest"},
     SpanContext : SpanContexts, Fields : SeqsUpTo(FieldSet, MaxFields)]

PlainEntry ==
    [Time |-> "2019-09-10T20:19:07.159852-05:00", Level |-> "INFO",
     LoggerName |-> "comp.subcomp", Message |-> "hi",
     File |-> "slog/examples_test.go", Line |-> 62,
     Func |-> "pkg.TestExampleTest",
     SpanContext |-> ZeroSpanContext, Fields |-> <<>>]

(***************************************************************************)
(* The encoder: slog.F / slog.Map build an ordered list of fields,         *)
(* slog.Encode turns it into a marshalable object and json.Marshal         *)
(* renders it.                                                             *)
(***************************************************************************)
F(name, value) == [Name |-> name, Value |-> value]

\* fmt.Sprintf("%v:%v", file, line)
Sprintf(file, line) == file \o ":" \o ToString(line)

\* TraceID.String() / SpanID.String(): the identifier rendered as text.
IDString(id) == "0000000" \o ToString(id)

Quote(s) == "\"" \o s \o "\""

\* LogEntryMap emitting trace and span only when the trace ID is set.
LogEntryMapTraceOnly(ent) ==
    LET m0 == << F("ts", StringValue(ent.Time)),
                 F("level", StringValue(ent.Level)),
                 F("component", StringValue(ent.LoggerName)),
                 F("msg", StringValue(ent.Message)),
                 F("caller", StringValue(Sprintf(ent.File, ent.Line))),
                 F("func", StringValue(ent.Func)) >>
        m1 == IF ent.SpanContext.TraceID # 0
              THEN m0 \o << F("trace", StringValue(IDString(ent.SpanContext.TraceID))),
                            F("span", StringValue(IDString(ent.SpanContext.SpanID))) >>
              ELSE m0
    IN  IF Len(ent.Fields) > 0
        THEN m1 \o << F("fields", MapValue(ent.Fields)) >>
        ELSE m1

\* LogEntryMap appending fields only when there are at least two.
LogEntryMapFewFields(ent) ==
    LET m0 == << F("ts", StringValue(ent.Time)),
                 F("level", StringValue(ent.Level)),
                 F("component", StringValue(ent.LoggerName)),
                 F("msg", StringValue(ent.Message)),
                 F("caller", StringValue(Sprintf(ent.File, ent.Line))),
                 F("func", StringValue(ent.Func)) >>
        m1 == IF ent.SpanContext # ZeroSpanContext
              THEN m0 \o << F("trace", StringValue(IDString(ent.SpanContext.TraceID))),
                            F("span", StringValue(IDString(ent.SpanContext.SpanID))) >>
              ELSE m0
    IN  IF Len(ent.Fields) > 1
        THEN m1 \o << F("fields", MapValue(ent.Fields)) >>
        ELSE m1

\* LogEntryMap with msg and component exchanged.
LogEntryMapSwapped(ent) ==
    LET m0 == << F("ts", StringValue(ent.Time)),
                 F("level", StringValue(ent.Level)),
                 F("msg", StringValue(ent.Message)),
                 F("component", StringValue(ent.LoggerName)),
                 F("caller", StringValue(Sprintf(ent.File, ent.Line))),
                 F("func", StringValue(ent.Func)) >>
        m1 == IF ent.SpanContext # ZeroSpanContext
              THEN m0 \o << F("trace", StringValue(IDString(ent.SpanContext.TraceID))),
                            F("span", StringValue(IDString(ent.SpanContext.SpanID))) >>
              ELSE m0
    IN  IF Len(ent.Fields) > 0
        THEN m1 \o << F("fields", MapValue(ent.Fields)) >>
        ELSE m1

\* Lines 52-72: the ordered field list LogEntry builds for an entry.
LogEntryMap(ent) ==
    LET m0 == << F("ts", StringValue(ent.Time)),
                 F("level", StringValue(ent.Level)),
                 F("component", StringValue(ent.LoggerName)),
                 F("msg", StringValue(ent.Message)),
                 F("caller", StringValue(Sprintf(ent.File, ent.Line))),
                 F("func", StringValue(ent.Func)) >>
        m1 == IF ent.SpanContext # ZeroSpanContext
              THEN m0 \o << F("trace", StringValue(IDString(ent.SpanContext.TraceID))),
                            F("span", StringValue(IDString(ent.SpanContext.SpanID))) >>
              ELSE m0
    IN  IF Len(ent.Fields) > 0
        THEN m1 \o << F("fields", MapValue(ent.Fields)) >>
        ELSE m1

\* slog.Encode: the ordered map as one marshalable object value.
Encode(m) == MapValue(m)

RECURSIVE Encodable(_)
Encodable(v) ==
    CASE v.kind = "string" -> TRUE
      [] v.kind = "map"    -> \A i \in DOMAIN v.fields : Encodable(v.fields[i].Value)
      [] OTHER             -> FALSE

RECURSIVE MarshalValue(_)
RECURSIVE MarshalMembers(_)
MarshalMembers(fs) ==
    IF fs = <<>> THEN <<>>
    ELSE << Quote(Head(fs).Name), ":" >> \o MarshalValue(Head(fs).Value)
         \o (IF Len(fs) > 1 THEN << "," >> \o MarshalMembers(Tail(fs)) ELSE <<>>)

MarshalValue(v) ==
    CASE v.kind = "string" -> << Quote(v.val) >>
      [] v.kind = "map"    -> << "{" >> \o MarshalMembers(v.fields) \o << "}" >>
      [] OTHER             -> <<>>

\* An error value: its message and the message of the error it wraps.
NoError == [msg |-> Nil, cause |-> Nil]
UnsupportedTypeError == [msg |-> "json: unsupported type", cause |-> Nil]
ErrWrite == [msg |-> "write rejected", cause |-> Nil]
ErrSync  == [msg |-> "sync rejected", cause |-> Nil]

\* json.Marshal(v): the bytes and the error.
Marshal(v) ==
    IF Encodable(v) THEN [buf |-> MarshalValue(v), err |-> NoError]
    ELSE [buf |-> <<>>, err |-> UnsupportedTypeError]

\* xerrors.Errorf("<msg>: %w", err)
Errorf(msg, err) == [msg |-> msg, cause |-> err.msg]

\* The messages of lines 77 and 83.
EncodeFailure == "slogjson: failed to encode entry to JSON"
WriteFailure  == "slogjson: failed to write JSON entry"

(***************************************************************************)
(* State.                                                                  *)
(***************************************************************************)
VARIABLES
    color,     \* color[s]: the sink's display-mode flag, humanfmt.IsTTY(w)
    hasSync,   \* hasSync[s]: the stream given to Make implements Sync() error
    inputs,    \* the entries the callers log
    targets,   \* the sinks the callers use
    mu,        \* mu[s]: the thread holding the sink's writer lock, 0 when free
    out,       \* out[s]: the tokens written to the sink's stream so far
    rejected,  \* rejected[s]: the stream has rejected a write
    pc,        \* pc[t]: the thread's position
    op,        \* op[t]: the call in progress or last made: "LogEntry", "Sync", "none"
    sink,      \* sink[t]: the sink of that call
    ent,       \* ent[t]: the entry of that call
    buf,       \* buf[t]: the bytes LogEntry built
    off,       \* off[t]: how many of them the stream has taken
    err,       \* err[t]: the error the stream operation returned
    ret,       \* ret[t]: the error the call returned
    nwrite,    \* nwrite[t]: Write calls issued on the stream during the call
    nsync,     \* nsync[t]: Sync calls issued on the stream during the call
    hist,      \* hist[t]: the <<sink, entry>> of the LogEntry calls that returned nil
    sent,      \* every [sink, ent, bytes] handed to a stream's Write
    calls      \* calls started so far

vars == << color, hasSync, inputs, targets, mu, out, rejected, pc, op, sink, ent, buf,
           off, err, ret, nwrite, nsync, hist, sent, calls >>

config == << color, hasSync, inputs, targets >>

\* The streams the sinks are made over: sink 1 writes to a terminal file
\* (a TTY, with a Sync method), sink 2 to an in-memory buffer (neither).
IsTTY(s) == s = 1
ImplementsSync(s) == s = 1

\* Make(w): a sink over the stream, its lock free, nothing written.
Make ==
    /\ color = [s \in Sinks |-> IsTTY(s)]
    /\ hasSync = [s \in Sinks |-> ImplementsSync(s)]
    /\ mu = [s \in Sinks |-> 0]
    /\ out = [s \in Sinks |-> <<>>]
    /\ rejected = [s \in Sinks |-> FALSE]

Idle ==
    /\ pc = [t \in Threads |-> "idle"]
    /\ op = [t \in Threads |-> "none"]
    /\ sink = [t \in Threads |-> 1]
    /\ ent = [t \in Threads |-> PlainEntry]
    /\ buf = [t \in Threads |-> <<>>]
    /\ off = [t \in Threads |-> 0]
    /\ err = [t \in Threads |-> NoError]
    /\ ret = [t \in Threads |-> NoError]
    /\ nwrite = [t \in Threads |-> 0]
    /\ nsync = [t \in Threads |-> 0]
    /\ hist = [t \in Threads |-> <<>>]
    /\ sent = {}
    /\ calls = 0

(***************************************************************************)
(* jsonSink.LogEntry.                                                      *)
(***************************************************************************)
\* LogEntryBuf leaving out the fields json.Marshal cannot encode.
LogEntryBufDrop(s, e) ==
    LET kept == SelectSeq(e.Fields, LAMBDA f : Encodable(f.Value))
        r == Marshal(Encode(LogEntryMap([e EXCEPT !.Fields = kept])))
    IN  [buf |-> Append(r.buf, "\n"), err |-> NoError]

\* LogEntryBuf colouring the level on a sink whose stream is a terminal.
LogEntryBufColor(s, e) ==
    LET shown == IF color[s] THEN [e EXCEPT !.Level = "\\x1b[36m" \o @ \o "\\x1b[0m"]
                 ELSE e
        r == Marshal(Encode(LogEntryMap(shown)))
    IN  IF r.err # NoError THEN r
        ELSE [buf |-> Append(r.buf, "\n"), err |-> NoError]

\* Lines 74-80: the bytes LogEntry builds on sink s for ent, or the error.
LogEntryBuf(s, e) ==
    LET v == Encode(LogEntryMap(e))
        r == Marshal(v)
    IN  IF r.err # NoError THEN r
        ELSE [buf |-> Append(r.buf, "\n"), err |-> NoError]

\* The sink calling the stream's own Write and Sync, past the syncwriter.
RawWrite == "w_write"
RawSync  == "s_sync"

\* Sync returning without calling the writer.
NoSync == "s_ret"

\* Lines 41, 81 and 89: s.w is the syncwriter made by Make, and the sink
\* calls its Write and its Sync.
SinkWrite == "w_lock"
SinkSync  == "s_check"

\* The places at which a stream may stop taking the bytes of one Write.
Splits(p) == {0, Len(p) \div 2, Len(p)}

\* A call's frame is gone once it has returned; the caller keeps the error.
Forget(t) ==
    /\ sink' = [sink EXCEPT ![t] = 1]
    /\ ent' = [ent EXCEPT ![t] = PlainEntry]
    /\ buf' = [buf EXCEPT ![t] = <<>>]
    /\ off' = [off EXCEPT ![t] = 0]
    /\ err' = [err EXCEPT ![t] = NoError]
    /\ nwrite' = [nwrite EXCEPT ![t] = 0]
    /\ nsync' = [nsync EXCEPT ![t] = 0]

CallLogEntry(t) ==
    /\ pc[t] = "idle"
    /\ calls < MaxCalls
    /\ \E s \in targets, e \in inputs :
          /\ sink' = [sink EXCEPT ![t] = s]
          /\ ent' = [ent EXCEPT ![t] = e]
    /\ op' = [op EXCEPT ![t] = "LogEntry"]
    /\ pc' = [pc EXCEPT ![t] = "encode"]
    /\ ret' = [ret EXCEPT ![t] = NoError]
    /\ calls' = calls + 1
    /\ UNCHANGED << config, mu, out, rejected, buf, off, err, nwrite, nsync,
                    hist, sent >>

\* Lines 52-81: build, encode, marshal; return the encoding error, or append
\* the newline and call s.w.Write(buf).
LogEntryEncode(t) ==
    /\ pc[t] = "encode"
    /\ LET r == LogEntryBuf(sink[t], ent[t])
       IN  IF r.err # NoError
           THEN /\ ret' = [ret EXCEPT ![t] =
                            Errorf(EncodeFailure, r.err)]
                /\ pc' = [pc EXCEPT ![t] = "idle"]
                /\ Forget(t)
           ELSE /\ buf' = [buf EXCEPT ![t] = r.buf]
                /\ pc' = [pc EXCEPT ![t] = SinkWrite]
                /\ UNCHANGED << ret, sink, ent, off, err, nwrite, nsync >>
    /\ UNCHANGED << config, mu, out, rejected, op, hist, sent, calls >>

\* syncwriter.Writer.Write: take the lock.
WriterLock(t) ==
    /\ pc[t] = "w_lock"
    /\ mu[sink[t]] = 0
    /\ mu' = [mu EXCEPT ![sink[t]] = t]
    /\ pc' = [pc EXCEPT ![t] = "w_write"]
    /\ UNCHANGED << config, out, rejected, op, sink, ent, buf, off, err, ret,
                    nwrite, nsync, hist, sent, calls >>

\* The stream's Write(buf) starts: it takes some prefix of the bytes.
StreamWrite(t) ==
    /\ pc[t] = "w_write"
    /\ \E k \in Splits(buf[t]) :
          /\ out' = [out EXCEPT ![sink[t]] = @ \o SubSeq(buf[t], 1, k)]
          /\ off' = [off EXCEPT ![t] = k]
    /\ nwrite' = [nwrite EXCEPT ![t] = @ + 1]
    /\ sent' = sent \cup {[sink |-> sink[t], ent |-> ent[t], bytes |-> buf[t]]}
    /\ pc' = [pc EXCEPT ![t] = "w_more"]
    /\ UNCHANGED << config, mu, rejected, op, sink, ent, buf, err, ret,
                    nsync, hist, calls >>

\* The stream's Write returns: it has taken the rest, or it rejects the write.
StreamWriteEnd(t) ==
    /\ pc[t] = "w_more"
    /\ \/ /\ out' = [out EXCEPT ![sink[t]] =
                        @ \o SubSeq(buf[t], off[t] + 1, Len(buf[t]))]
          /\ off' = [off EXCEPT ![t] = Len(buf[t])]
          /\ err' = [err EXCEPT ![t] = NoError]
          /\ UNCHANGED rejected
       \/ /\ err' = [err EXCEPT ![t] = ErrWrite]
          /\ rejected' = [rejected EXCEPT ![sink[t]] = TRUE]
          /\ UNCHANGED << out, off >>
    /\ pc' = [pc EXCEPT ![t] = "w_unlock"]
    /\ UNCHANGED << config, mu, op, sink, ent, buf, ret, nwrite, nsync,
                    hist, sent, calls >>

\* syncwriter.Writer.Write: release the lock and return the stream's error.
WriterUnlock(t) ==
    /\ pc[t] = "w_unlock"
    /\ mu' = [mu EXCEPT ![sink[t]] = 0]
    /\ pc' = [pc EXCEPT ![t] = "le_ret"]
    /\ UNCHANGED << config, out, rejected, op, sink, ent, buf, off, err, ret,
                    nwrite, nsync, hist, sent, calls >>

\* LogEntryReturn dropping the write error.
LogEntryReturnSwallow(t) ==
    /\ pc[t] = "le_ret"
    /\ ret' = [ret EXCEPT ![t] = NoError]
    /\ hist' = [hist EXCEPT ![t] = Append(@, << sink[t], ent[t] >>)]
    /\ pc' = [pc EXCEPT ![t] = "idle"]
    /\ Forget(t)
    /\ UNCHANGED << config, mu, out, rejected, op, sent, calls >>

\* LogEntryReturn returning only once the write has succeeded.
LogEntryReturnOnSuccess(t) ==
    /\ pc[t] = "le_ret"
    /\ err[t] = NoError
    /\ ret' = [ret EXCEPT ![t] = NoError]
    /\ hist' = [hist EXCEPT ![t] = Append(@, << sink[t], ent[t] >>)]
    /\ pc' = [pc EXCEPT ![t] = "idle"]
    /\ Forget(t)
    /\ UNCHANGED << config, mu, out, rejected, op, sent, calls >>

\* Lines 82-85: wrap the write error, or return nil.
LogEntryReturn(t) ==
    /\ pc[t] = "le_ret"
    /\ IF err[t] # NoError
       THEN /\ ret' = [ret EXCEPT ![t] =
                        Errorf(WriteFailure, err[t])]
            /\ UNCHANGED hist
       ELSE /\ ret' = [ret EXCEPT ![t] = NoError]
            /\ hist' = [hist EXCEPT ![t] = Append(@, << sink[t], ent[t] >>)]
    /\ pc' = [pc EXCEPT ![t] = "idle"]
    /\ Forget(t)
    /\ UNCHANGED << config, mu, out, rejected, op, sent, calls >>

(***************************************************************************)
(* jsonSink.Sync.                                                          *)
(***************************************************************************)
\* Line 89: call s.w.Sync().
CallSync(t) ==
    /\ pc[t] = "idle"
    /\ calls < MaxCalls
    /\ \E s \in targets : sink' = [sink EXCEPT ![t] = s]
    /\ op' = [op EXCEPT ![t] = "Sync"]
    /\ pc' = [pc EXCEPT ![t] = SinkSync]
    /\ ret' = [ret EXCEPT ![t] = NoError]
    /\ calls' = calls + 1
    /\ UNCHANGED << config, mu, out, rejected, ent, buf, off, err, nwrite, nsync,
                    hist, sent >>

\* syncwriter.Writer.Sync: a stream without Sync makes it a successful no-op;
\* otherwise it takes the lock of Write, calls the stream's Sync and returns
\* its error.
WriterSyncCheck(t) ==
    /\ pc[t] = "s_check"
    /\ pc' = [pc EXCEPT ![t] = IF hasSync[sink[t]] THEN "s_lock" ELSE "s_ret"]
    /\ UNCHANGED << config, mu, out, rejected, op, sink, ent, buf, off, err, ret,
                    nwrite, nsync, hist, sent, calls >>

WriterSyncLock(t) ==
    /\ pc[t] = "s_lock"
    /\ mu[sink[t]] = 0
    /\ mu' = [mu EXCEPT ![sink[t]] = t]
    /\ pc' = [pc EXCEPT ![t] = "s_sync"]
    /\ UNCHANGED << config, out, rejected, op, sink, ent, buf, off, err, ret,
                    nwrite, nsync, hist, sent, calls >>

\* The stream's Sync() starts.
StreamSync(t) ==
    /\ pc[t] = "s_sync"
    /\ nsync' = [nsync EXCEPT ![t] = @ + 1]
    /\ pc' = [pc EXCEPT ![t] = "s_more"]
    /\ UNCHANGED << config, mu, out, rejected, op, sink, ent, buf, off, err, ret,
                    nwrite, hist, sent, calls >>

\* The stream's Sync() returns: it succeeded or it failed; it wrote nothing.
StreamSyncEnd(t) ==
    /\ pc[t] = "s_more"
    /\ \E e \in {NoError, ErrSync} : err' = [err EXCEPT ![t] = e]
    /\ pc' = [pc EXCEPT ![t] = "s_unlock"]
    /\ UNCHANGED << config, mu, out, rejected, op, sink, ent, buf, off, ret,
                    nwrite, nsync, hist, sent, calls >>

WriterSyncUnlock(t) ==
    /\ pc[t] = "s_unlock"
    /\ mu' = [mu EXCEPT ![sink[t]] = 0]
    /\ pc' = [pc EXCEPT ![t] = "s_ret"]
    /\ UNCHANGED << config, out, rejected, op, sink, ent, buf, off, err, ret,
                    nwrite, nsync, hist, sent, calls >>

\* Line 89: return what s.w.Sync() returned.
SyncReturn(t) ==
    /\ pc[t] = "s_ret"
    /\ ret' = [ret EXCEPT ![t] = err[t]]
    /\ pc' = [pc EXCEPT ![t] = "idle"]
    /\ Forget(t)
    /\ UNCHANGED << config, mu, out, rejected, op, hist, sent, calls >>

(***************************************************************************)
(* Specifications.                                                         *)
(***************************************************************************)
\* The steps of a call in progress.
Progress(t) ==
    \/ LogEntryEncode(t)
    \/ WriterLock(t)
    \/ StreamWrite(t)
    \/ StreamWriteEnd(t)
    \/ WriterUnlock(t)
    \/ LogEntryReturn(t)
    \/ WriterSyncCheck(t)
    \/ WriterSyncLock(t)
    \/ StreamSync(t)
    \/ StreamSyncEnd(t)
    \/ WriterSyncUnlock(t)
    \/ SyncReturn(t)

Step(t) == CallLogEntry(t) \/ CallSync(t) \/ Progress(t)

\* Entries logged concurrently: plain, with tracing and fields, unencodable.
TracedEntry ==
    [PlainEntry EXCEPT !.SpanContext = [TraceID |-> 1, SpanID |-> 1, TraceOptions |-> 1],
                       !.Fields = << F("a", StringValue("v")) >>]
BadEntry == [PlainEntry EXCEPT !.Fields = << F("b", ChanValue) >>]

\* Threads logging a few entries concurrently on one sink.
Init == Make /\ Idle /\ inputs = {PlainEntry, TracedEntry, BadEntry} /\ targets = {1}
Next == \E t \in Threads : Step(t)
Spec == Init /\ [][Next]_vars

\* One thread logging one entry, any entry, repeatedly and on either sink.
InitEnc == Make /\ Idle /\ (\E e \in Entries : inputs = {e}) /\ targets = Sinks
NextEnc == Step(1)
SpecEnc == InitEnc /\ [][NextEnc]_vars

\* Go schedules every runnable goroutine: a call in progress keeps stepping.
\* The threads log an entry that encodes and one that does not.
InitLive == Make /\ Idle /\ inputs = {PlainEntry, BadEntry} /\ targets = {1}
SpecLive == InitLive /\ [][Next]_vars /\ \A t \in Threads : WF_vars(Progress(t))

(***************************************************************************)
(* Reading the output back: the lines of a stream and the members of a     *)
(* JSON object, decoded from the tokens.                                   *)
(***************************************************************************)
\* The index of the "}" closing the "{" at index i.
RECURSIVE MatchClose(_, _, _)
MatchClose(toks, i, depth) ==
    IF toks[i] = "{" THEN MatchClose(toks, i + 1, depth + 1)
    ELSE IF toks[i] = "}"
         THEN IF depth = 1 THEN i ELSE MatchClose(toks, i + 1, depth - 1)
         ELSE MatchClose(toks, i + 1, depth)

\* The members [key, val] of an object from index i on (a key, or the "}").
RECURSIVE MembersFrom(_, _)
MembersFrom(toks, i) ==
    IF toks[i] = "}" THEN <<>>
    ELSE LET first == i + 2
             last  == IF toks[first] = "{" THEN MatchClose(toks, first, 0) ELSE first
         IN  << [key |-> toks[i], val |-> SubSeq(toks, first, last)] >>
             \o (IF toks[last + 1] = "," THEN MembersFrom(toks, last + 2) ELSE <<>>)

\* The members of the object the tokens spell.
Members(object) == MembersFrom(object, 2)

Keys(object) == LET members == Members(object)
                IN  [i \in DOMAIN members |-> members[i].key]

\* A line is one object followed by one newline.
IsLine(line) ==
    /\ Len(line) >= 3
    /\ line[1] = "{"
    /\ line[Len(line)] = "\n"
    /\ MatchClose(line, 1, 0) = Len(line) - 1

ObjectOf(line) == SubSeq(line, 1, Len(line) - 1)

\* The stream cut after every newline: the complete lines and what follows them.
RECURSIVE CutLines(_, _, _)
CutLines(toks, i, start) ==
    IF i > Len(toks) THEN [lines |-> <<>>, rest |-> SubSeq(toks, start, Len(toks))]
    ELSE IF toks[i] = "\n"
         THEN LET more == CutLines(toks, i + 1, i + 1)
              IN  [lines |-> << SubSeq(toks, start, i) >> \o more.lines, rest |-> more.rest]
         ELSE CutLines(toks, i + 1, start)

Lines(toks) == CutLines(toks, 1, 1)

Range(q) == {q[i] : i \in DOMAIN q}
Count(q, x) == Cardinality({i \in DOMAIN q : q[i] = x})

\* q is p with some elements left out, the order kept.
RECURSIVE IsSubSeq(_, _)
IsSubSeq(q, p) ==
    IF q = <<>> THEN TRUE
    ELSE IF p = <<>> THEN FALSE
    ELSE IF Head(q) = Head(p) THEN IsSubSeq(Tail(q), Tail(p))
    ELSE IsSubSeq(q, Tail(p))

MandatoryKeys == << Quote("ts"), Quote("level"), Quote("component"), Quote("msg"),
                    Quote("caller"), Quote("func") >>
OptionalKeys == << Quote("trace"), Quote("span"), Quote("fields") >>

IndexOf(q, x) == IF x \in Range(q) THEN CHOOSE i \in DOMAIN q : q[i] = x ELSE 0

(***************************************************************************)
(* Claims.                                                                 *)
(***************************************************************************)

\* The entries of the LogEntry calls on sink s that returned nil.
Logged(s) == {<< t, i >> \in Threads \X (1..MaxCalls) :
                 i <= Len(hist[t]) /\ hist[t][i][1] = s}

AllIdle == \A t \in Threads : pc[t] = "idle"

\* C1: once every call has returned, a stream that rejected no write holds
\* only complete lines, one for each LogEntry call on its sink that returned
\* nil and as many of each as there were such calls for that encoding: each
\* line is the whole encoding of one entry and none mixes two.  N threads
\* that each logged once leave exactly N lines.
C1_WholeLines ==
    \A s \in Sinks :
        (AllIdle /\ ~rejected[s]) =>
            LET cut == Lines(out[s])
                want == {LogEntryBuf(s, hist[c[1]][c[2]][2]).buf : c \in Logged(s)}
            IN  /\ cut.rest = <<>>
                /\ Len(cut.lines) = Cardinality(Logged(s))
                /\ Range(cut.lines) = want
                /\ \A line \in want :
                      /\ IsLine(line)
                      /\ Count(cut.lines, line) =
                           Cardinality({c \in Logged(s) :
                               LogEntryBuf(s, hist[c[1]][c[2]][2]).buf = line})

\* Every thread has logged once on sink 1, each a different entry, and all
\* have returned nil.
C1_Witness ==
    /\ AllIdle
    /\ ~rejected[1]
    /\ \A t \in Threads : Len(hist[t]) = 1 /\ hist[t][1][1] = 1
    /\ \A t, u \in Threads : t # u => hist[t][1][2] # hist[u][1][2]
    /\ Len(Lines(out[1]).lines) = NumThreads

\* The positions inside an operation of the stream.
InStream == {"w_more", "s_more"}

\* C2: on each sink at most one thread is inside an operation of the stream
\* (a Write issued by LogEntry or a Sync issued by Sync), and that thread
\* holds the sink's lock.
C2_MutualExclusion ==
    \A s \in Sinks :
        LET inside == {t \in Threads : pc[t] \in InStream /\ sink[t] = s}
        IN  /\ Cardinality(inside) <= 1
            /\ \A t \in inside : mu[s] = t

\* One thread is inside the stream's Write while another waits for the lock
\* to sync.
C2_Witness ==
    \E t, u \in Threads :
        /\ sink[t] = sink[u]
        /\ pc[t] = "w_more"
        /\ pc[u] = "s_lock"

\* The keys of a line obey the wire format: the six mandatory keys first and
\* in order, then keys taken from trace, span, fields in that order, and no
\* member null or an empty object.
WireOrder(line) ==
    /\ IsLine(line)
    /\ LET keys == Keys(ObjectOf(line))
           members == Members(ObjectOf(line))
       IN  /\ Len(keys) >= 6
           /\ SubSeq(keys, 1, 6) = MandatoryKeys
           /\ IsSubSeq(SubSeq(keys, 7, Len(keys)), OptionalKeys)
           /\ \A i \in DOMAIN members :
                 members[i].val \notin {<< "null" >>, << "{", "}" >>, <<>>}

\* C3 as stated: every object handed to a stream obeys the wire format, and
\* an entry whose trace ID and span ID are empty and that has no fields gives
\* exactly the six mandatory keys.
C3_KeyOrderIdentifiers ==
    \A x \in sent :
        /\ WireOrder(x.bytes)
        /\ (x.ent.SpanContext.TraceID = 0 /\ x.ent.SpanContext.SpanID = 0
              /\ x.ent.Fields = <<>>)
             => Keys(ObjectOf(x.bytes)) = MandatoryKeys

\* C3, amended: every object handed to a stream begins with the keys ts,
\* level, component, msg, caller, func in that order; the keys after them are
\* taken from trace, span, fields in that order; no member is null or an empty
\* object; and an entry whose span context is the zero value (trace ID, span
\* ID and trace options) and that has no fields gives exactly the six keys.
C3_KeyOrder ==
    \A x \in sent :
        /\ WireOrder(x.bytes)
        /\ (x.ent.SpanContext = ZeroSpanContext /\ x.ent.Fields = <<>>)
             => Keys(ObjectOf(x.bytes)) = MandatoryKeys

\* An entry with a zero span context and no fields has been written with six
\* keys.
C3_Witness ==
    \E x \in sent :
        /\ x.ent.SpanContext = ZeroSpanContext /\ x.ent.Fields = <<>>
        /\ Keys(ObjectOf(x.bytes)) = MandatoryKeys
        /\ Len(Members(ObjectOf(x.bytes))) = 6

\* C4 as stated: the object has the keys trace and span exactly when the
\* entry's pair (trace ID, span ID) is not the zero pair.
C4_TraceIffIdentifiers ==
    \A x \in sent :
        LET keys == Keys(ObjectOf(x.bytes))
        IN  (Quote("trace") \in Range(keys) /\ Quote("span") \in Range(keys))
              <=> (<< x.ent.SpanContext.TraceID, x.ent.SpanContext.SpanID >> # << 0, 0 >>)

\* C4, amended: the object has the keys trace and span exactly when the
\* entry's span context as a whole (trace ID, span ID and trace options) is
\* not the zero value; the two keys are present or absent together; when
\* present they are the seventh and eighth key, trace then span, right after
\* func and before fields, and their values are the identifiers' strings.
C4_TraceIffSpanContext ==
    \A x \in sent :
        LET keys == Keys(ObjectOf(x.bytes))
            members == Members(ObjectOf(x.bytes))
            traced == x.ent.SpanContext # ZeroSpanContext
        IN  /\ Quote("trace") \in Range(keys) <=> traced
            /\ Quote("span") \in Range(keys) <=> traced
            /\ traced =>
                  /\ Len(keys) >= 8
                  /\ keys[6] = Quote("func")
                  /\ keys[7] = Quote("trace")
                  /\ keys[8] = Quote("span")
                  /\ Count(keys, Quote("trace")) = 1
                  /\ Count(keys, Quote("span")) = 1
                  /\ members[7].val = << Quote(IDString(x.ent.SpanContext.TraceID)) >>
                  /\ members[8].val = << Quote(IDString(x.ent.SpanContext.SpanID)) >>
                  /\ Quote("fields") \in Range(keys) => IndexOf(keys, Quote("fields")) = 9

\* A traced entry with fields has been written: trace, span, then fields.
C4_Witness ==
    \E x \in sent :
        /\ x.ent.SpanContext.TraceID # 0
        /\ x.ent.Fields # <<>>
        /\ SubSeq(Keys(ObjectOf(x.bytes)), 6, 9)
             = << Quote("func"), Quote("trace"), Quote("span"), Quote("fields") >>

\* C5: the object has the key fields exactly when the entry has at least one
\* field; when present it is the last key and its value is an object whose
\* members are the entry's fields, names and values, in the entry's order.
C5_Fields ==
    \A x \in sent :
        LET keys == Keys(ObjectOf(x.bytes))
            members == Members(ObjectOf(x.bytes))
            n == Len(keys)
        IN  /\ Quote("fields") \in Range(keys) <=> Len(x.ent.Fields) >= 1
            /\ Len(x.ent.Fields) >= 1 =>
                  /\ keys[n] = Quote("fields")
                  /\ Count(keys, Quote("fields")) = 1
                  /\ LET inner == Members(members[n].val)
                     IN  /\ Len(inner) = Len(x.ent.Fields)
                         /\ \A i \in DOMAIN inner :
                               /\ inner[i].key = Quote(x.ent.Fields[i].Name)
                               /\ inner[i].val = << Quote(x.ent.Fields[i].Value.val) >>

\* An entry with two differently named fields has been written.
C5_Witness ==
    \E x \in sent :
        /\ Len(x.ent.Fields) = 2
        /\ x.ent.Fields[1].Name # x.ent.Fields[2].Name
        /\ Keys(ObjectOf(x.bytes))[Len(Keys(ObjectOf(x.bytes)))] = Quote("fields")

\* json.Marshal cannot serialize the entry: one of its field values is a channel.
Unserializable(e) == \E i \in DOMAIN e.Fields : e.Fields[i].Value.kind = "chan"

\* C6: a LogEntry call whose entry cannot be serialized returns an encoding
\* error wrapping json.Marshal's error, in the very step that tried to encode:
\* no stream changes, no Write is issued then or ever for such an entry, and
\* no line for it, whole or with fields left out, reaches a stream.
C6_EncodingError ==
    /\ [](\A x \in sent : ~Unserializable(x.ent))
    /\ [](\A t \in Threads :
            (op[t] = "LogEntry" /\ pc[t] # "idle" /\ Unserializable(ent[t]))
                => (pc[t] = "encode" /\ nwrite[t] = 0))
    /\ [][\A t \in Threads :
            (pc[t] = "encode" /\ pc'[t] # "encode" /\ Unserializable(ent[t]))
                => /\ pc'[t] = "idle"
                   /\ ret'[t] = [msg |-> EncodeFailure, cause |-> UnsupportedTypeError.msg]
                   /\ out' = out
                   /\ sent' = sent
                   /\ rejected' = rejected]_vars

\* A call has returned the encoding error and the streams are empty.
C6_Witness ==
    \E t \in Threads :
        /\ pc[t] = "idle"
        /\ op[t] = "LogEntry"
        /\ ret[t].msg = EncodeFailure
        /\ \A s \in Sinks : out[s] = <<>>

\* C7: a LogEntry call issues at most one Write on the stream, and its
\* argument is the whole line with its newline; the call returns from le_ret
\* at once, keeping no bytes, with the write error wrapping the stream's error
\* when the stream rejected the write; and it returns nil exactly when the
\* entry was serialized and that one Write took every byte without error.
C7_OneWrite ==
    /\ [](\A t \in Threads :
            /\ nwrite[t] <= 1
            /\ pc[t] \in {"w_more", "w_unlock", "le_ret"} =>
                  /\ nwrite[t] = 1
                  /\ IsLine(buf[t])
                  /\ [sink |-> sink[t], ent |-> ent[t], bytes |-> buf[t]] \in sent)
    /\ [][\A t \in Threads :
            /\ (pc[t] = "le_ret" /\ pc'[t] # "le_ret")
                  => (pc'[t] = "idle" /\ buf'[t] = <<>> /\ out' = out)
            /\ (pc[t] = "le_ret" /\ pc'[t] = "idle" /\ err[t] # NoError)
                  => ret'[t] = [msg |-> WriteFailure, cause |-> err[t].msg]
            /\ (pc[t] \in {"encode", "le_ret"} /\ pc'[t] = "idle")
                  => (ret'[t] = NoError <=>
                        /\ ~Unserializable(ent[t])
                        /\ pc[t] = "le_ret"
                        /\ nwrite[t] = 1
                        /\ err[t] = NoError
                        /\ off[t] = Len(buf[t]))]_vars

\* A call has returned the write error after a rejected, partial write, and
\* nobody is writing.
C7_Witness ==
    \E t \in Threads :
        /\ pc[t] = "idle"
        /\ op[t] = "LogEntry"
        /\ ret[t] = [msg |-> WriteFailure, cause |-> ErrWrite.msg]
        /\ rejected[1]
        /\ Lines(out[1]).rest # <<>>
        /\ AllIdle

SyncPositions == {"s_check", "s_lock", "s_sync", "s_more", "s_unlock", "s_ret"}

\* C8: a Sync call on a sink whose stream has a Sync method calls it exactly
\* once, holding the lock Write takes, and returns the error of that call; on
\* a stream without one it calls nothing and returns nil; and no step of a
\* Sync call writes to a stream.
C8_Sync ==
    /\ [](\A t \in Threads :
            pc[t] \in SyncPositions =>
                /\ nwrite[t] = 0
                /\ nsync[t] <= 1
                /\ pc[t] = "s_more" => mu[sink[t]] = t
                /\ pc[t] = "s_ret" =>
                      /\ nsync[t] = IF hasSync[sink[t]] THEN 1 ELSE 0
                      /\ ~hasSync[sink[t]] => err[t] = NoError)
    /\ [][\A t \in Threads :
            /\ ((pc[t] \in SyncPositions \/ pc'[t] \in SyncPositions) /\ pc'[t] # pc[t])
                  => (out' = out /\ sent' = sent)
            /\ (pc[t] = "s_ret" /\ pc'[t] = "idle") => ret'[t] = err[t]]_vars

\* A Sync call has returned the error of the stream's Sync.
C8_Witness ==
    \E t \in Threads :
        /\ pc[t] = "idle"
        /\ op[t] = "Sync"
        /\ ret[t] = ErrSync

\* C9: the bytes handed to a stream depend on the entry alone: two Write
\* arguments for the same entry, on the same sink or on sinks whose flags
\* differ, are equal.
C9_SameBytes ==
    \A x, y \in sent : x.ent = y.ent => x.bytes = y.bytes

\* The same entry has been handed to the streams of two sinks with different
\* flags.
C9_Witness ==
    \E x, y \in sent :
        /\ x.ent = y.ent
        /\ color[x.sink] # color[y.sink]

\* C10: under fair scheduling every call in progress returns, and whenever no
\* call is in progress every lock is free, whatever errors earlier calls
\* returned.
C10_Returns ==
    /\ \A t \in Threads : (pc[t] # "idle") ~> (pc[t] = "idle")
    /\ [](AllIdle => \A s \in Sinks : mu[s] = 0)

\* A call whose write was rejected has returned, and another thread has taken
\* the lock since.
C10_Witness ==
    \E t, u \in Threads :
        /\ pc[t] = "idle"
        /\ ret[t].msg = WriteFailure
        /\ pc[u] = "w_write"
        /\ mu[sink[u]] = u
        /\ rejected[sink[u]]

====
